---- MODULE Spec2Model ----
(***************************************************************************)
(* Model of rent_vs_buy_app.py: one run of main(), from reading the        *)
(* sidebar widgets to the "lower housing expenses for N years" statement.  *)
(*                                                                         *)
(* Numbers.  The program computes in binary floating point.  Here money    *)
(* is a whole number of dollars and every rate or growth factor is a       *)
(* fixed-point number with SCALE units to 1 (0.03 is 30000, 1.03 is        *)
(* 1030000).  A product of a money amount and a factor is rounded to the   *)
(* nearest dollar, a product of two factors to the nearest unit.           *)
(***************************************************************************)
EXTENDS Integers, Sequences, FiniteSets

VARIABLES pc, error,
          house_price, deposit_pct, term, home_loan_rate,
          deposit_amt, home_loan,
          strata_council_cost, home_insurance, transport_cost,
          total_ownership_cost, weekly_rent,
          property_return, portfolio_return,
          loan_payments, ownership_costs, rent_costs, savings_rent_vs_buy,
          cumulative_property_return, balances,
          asset_values_owning, asset_values_renting,
          asset_value, year, years_with_savings

inputs == <<house_price, deposit_pct, term, home_loan_rate, deposit_amt,
            home_loan, strata_council_cost, home_insurance, transport_cost,
            total_ownership_cost, weekly_rent, property_return,
            portfolio_return>>

series == <<loan_payments, ownership_costs, rent_costs, savings_rent_vs_buy,
            cumulative_property_return, balances, asset_values_owning,
            asset_values_renting>>

vars == <<pc, error, inputs, series, asset_value, year, years_with_savings>>

----------------------------------------------------------------------------
(* Fixed-point arithmetic                                                  *)

Kilo == 10 * 100
SCALE == Kilo * Kilo

\* round(a * b / SCALE), b >= 0, computed in parts so that no intermediate
\* product leaves the 32-bit range
MulDiv(a, b) ==
    LET a1 == a \div Kilo
        a0 == a % Kilo
        b1 == b \div Kilo
        b0 == b % Kilo
    IN  a1 * b1 + ((a1 * b0 + a0 * b1) + (a0 * b0 + SCALE \div 2) \div Kilo) \div Kilo

\* <<floor(a * b / c), (a * b) % c>> for a >= 0, b >= 0, c > 0, by binary
\* long multiplication
RECURSIVE QuotRem(_, _, _)
QuotRem(a, b, c) ==
    IF a = 0 THEN <<0, 0>>
    ELSE LET h == QuotRem(a \div 2, b, c)
             r == 2 * h[2] + (a % 2) * b
         IN  <<2 * h[1] + r \div c, r % c>>

MulDivG(a, b, c) == QuotRem(a, b, c)[1]

\* <<b^0, b^1, ..., b^n>> for a fixed-point base b (element k+1 is b^k)
RECURSIVE PowSeq(_, _)
PowSeq(b, n) ==
    IF n = 0 THEN <<SCALE>>
    ELSE LET p == PowSeq(b, n - 1) IN Append(p, MulDiv(p[n], b))

\* The daily rate is too small for SCALE: it is compounded with FINE units
\* to 1 and the result is rounded back to SCALE.
Myriad == 100 * 100
FINE == Myriad * Myriad

\* round(a * b / FINE) for factors a, b >= 0
MulDivFine(a, b) ==
    LET a1 == a \div Myriad
        a0 == a % Myriad
        b1 == b \div Myriad
        b0 == b % Myriad
    IN  a1 * b1 + ((a1 * b0 + a0 * b1) + (a0 * b0 + FINE \div 2) \div Myriad) \div Myriad

\* math.pow(b, n) for a FINE base b and a large whole exponent n, by
\* repeated squaring
RECURSIVE PowFine(_, _)
PowFine(b, n) ==
    IF n = 0 THEN FINE
    ELSE LET h == PowFine(b, n \div 2)
             s == MulDivFine(h, h)
         IN  IF n % 2 = 1 THEN MulDivFine(s, b) ELSE s

----------------------------------------------------------------------------
(* Program constants and widget ranges                                     *)

Pct == SCALE \div 100

inflation == 2 * Pct
rent_inflation == 3 * Pct
default_property_return == 3 * Pct
default_portfolio_return == 5 * Pct

time_frame == 50
max_rent == 100000

\* values tried for each widget, each inside the widget's min..max and on
\* its step; the first and last of a range are its min_value and max_value
HousePrices == {300000, 800000, 5000000}
DepositPcts == {0, 10, 100}
Terms == {5, 17, 30}
\* home loan rate in hundredths of a percent (the widget's step is 0.01)
LoanRates == {100, 279, 1000}
\* <<strata_council_cost, home_insurance, transport_cost>>
OwnershipCosts == {<<0, 0, 0>>, <<1500, 60, 200>>}
WeeklyRents == {100, 690, 5000}
\* <<property return %, portfolio return %>> picked when the checkbox is set
InvestmentPcts == {<<0, 0>>, <<7, 4>>}

----------------------------------------------------------------------------
(* read_loan_inputs                                                        *)

\* math.pow(1 + home_loan_rate/100/365, 365) - 1, rate in hundredths of a %
EffectiveRate(rate) ==
    LET daily == (2 * rate * (FINE \div (100 * 100)) + 365) \div (2 * 365)
        fine  == PowFine(FINE + daily, 365) - FINE
    IN  (fine + (FINE \div SCALE) \div 2) \div (FINE \div SCALE)

----------------------------------------------------------------------------
(* mortgage.Loan: fixed-rate amortization                                  *)

NoSeries == [i \in {} |-> 0]

NoLoan == [principal |-> 0, interest |-> 0, term |-> 0,
           monthly_payment |-> 0, schedule |-> NoSeries]

LoanValid(principal, interest, loan_term) ==
    principal > 0 /\ interest >= 0 /\ loan_term > 0

\* payment = principal * r / (1 - (1+r)^-n); balance after k periods
\* = principal * ((1+r)^n - (1+r)^k) / ((1+r)^n - 1), with r the monthly
\* rate and n the number of monthly periods.  (1+r)^k is the product of
\* a whole-year power and a power below 12.
Loan(principal, interest, loan_term) ==
    LET n  == loan_term * 12
        r  == (interest + 6) \div 12
        pm == PowSeq(SCALE + r, 12)
        py == PowSeq(pm[13], loan_term)
        pw == [j \in 1..(n + 1) |->
                  MulDiv(py[((j - 1) \div 12) + 1], pm[((j - 1) % 12) + 1])]
        qn == pw[n + 1]
    IN  [principal |-> principal, interest |-> interest, term |-> loan_term,
         monthly_payment |->
             IF r = 0 THEN principal \div n
             ELSE MulDiv(principal, MulDivG(r, qn, qn - SCALE)),
         schedule |->
             [k \in 0..n |->
                 IF r = 0 THEN MulDivG(principal, n - k, n)
                 ELSE MulDivG(principal, qn - pw[k + 1], qn - SCALE)]]

\* mutation: the deposit is not taken off the amount borrowed
LoanPrincipalFullPrice(price, deposit) == price

LoanPrincipal(price, deposit) == price - deposit

----------------------------------------------------------------------------
(* pandas Series over the positions 0..n-1                                 *)

Length(s) == Cardinality(DOMAIN s)

\* mutation: np.zeros(time_frame) in place of np.zeros(time_frame + 1)
ZerosShort(n) == [i \in 0..(n - 2) |-> 0]

Zeros(n) == [i \in 0..(n - 1) |-> 0]

\* s.iloc[lo:hi] = v
SetSlice(s, lo, hi, v) ==
    [i \in DOMAIN s |-> IF lo <= i /\ i < hi THEN v ELSE s[i]]

\* s.iloc[i] = v
SetAt(s, i, v) == [j \in DOMAIN s |-> IF j = i THEN v ELSE s[j]]

\* s * f, element by element, f a series of fixed-point factors; the
\* operands of every element-wise operation of main share one index
Times(s, f) == [i \in DOMAIN s \cap DOMAIN f |-> MulDiv(s[i], f[i])]

RECURSIVE CumProdSeq(_, _)
CumProdSeq(s, n) ==
    IF n = 0 THEN <<s[0]>>
    ELSE LET p == CumProdSeq(s, n - 1) IN Append(p, MulDiv(p[n], s[n]))

\* s.cumprod()
CumProd(s) ==
    LET p == CumProdSeq(s, Length(s) - 1) IN [i \in DOMAIN s |-> p[i + 1]]

----------------------------------------------------------------------------
(* main: data preparation                                                  *)

years == 0..time_frame

\* years.apply(lambda x: math.pow(1 + rate, x))
Cumulative(rate) ==
    LET p == PowSeq(SCALE + rate, time_frame) IN [y \in years |-> p[y + 1]]

cumulative_inflation == Cumulative(inflation)
cumulative_rent_inflation == Cumulative(rent_inflation)

TotalOwnershipCost(price, strata, insurance, transport) ==
    MulDiv(price, Pct) + strata * 4 + insurance * 12 + transport * 52

\* mutation: the slice 1:term stops a year early
LoanPaymentSeriesShort(loan_term, monthly_payment, deposit) ==
    [i \in 0..time_frame |->
        IF i = 0 THEN deposit
        ELSE IF i < loan_term THEN monthly_payment * 12 ELSE 0]

LoanPaymentSeries(loan_term, monthly_payment, deposit) ==
    SetAt(SetSlice(Zeros(time_frame + 1), 1, loan_term + 1, monthly_payment * 12),
          0, deposit)

\* mutation: the cost is not adjusted for inflation
OwnershipCostSeriesFlat(total, cumulative) ==
    [i \in 0..time_frame |-> IF i = 0 THEN 0 ELSE total]

OwnershipCostSeries(total, cumulative) ==
    LET z == Zeros(time_frame + 1)
    IN  Times(SetAt(SetSlice(z, 1, Length(z), total), 0, 0), cumulative)

\* mutation: the cap is a one-time cutoff, applied only to the first year
\* that exceeds it
RentCostSeriesCapOnce(rent, cumulative) ==
    LET raw == [i \in 0..time_frame |->
                   IF i = 0 THEN 0 ELSE MulDiv(rent * 52, cumulative[i])]
    IN  [i \in 0..time_frame |->
            IF raw[i] > max_rent /\ (i = 0 \/ raw[i - 1] <= max_rent)
            THEN max_rent ELSE raw[i]]

RentCostSeries(rent, cumulative) ==
    LET z   == Zeros(time_frame + 1)
        raw == Times(SetAt(SetSlice(z, 1, Length(z), rent * 52), 0, 0), cumulative)
    IN  [i \in DOMAIN raw |-> IF raw[i] > max_rent THEN max_rent ELSE raw[i]]

\* mutation: rent minus buy in place of buy minus rent
SavingsSeriesRentMinusBuy(ownership, payments, rents) ==
    [i \in 0..time_frame |-> rents[i] - ownership[i] - payments[i]]

SavingsSeries(ownership, payments, rents) ==
    [i \in (DOMAIN ownership \cap DOMAIN payments) \cap DOMAIN rents |->
        ownership[i] + payments[i] - rents[i]]

YearlyReturns(rate) ==
    LET z == Zeros(time_frame + 1)
    IN  SetSlice(SetAt(z, 0, SCALE), 1, Length(z), SCALE + rate)

\* mutation: the balance is sampled at the year boundary
SchedulePeriodYearBoundary(y) == 12 * y

\* the period of the amortization schedule sampled for a year
SchedulePeriod(y) == 12 * y + 1

\* mutation: the balance is stored one year late
StoreBalanceNextYear(s, y, balance) == SetAt(s, y + 1, balance)

\* balances.iloc[year] = balance
StoreBalance(s, y, balance) == SetAt(s, y, balance)

AssetOwningSeries(cumulative, price, owed) ==
    [i \in DOMAIN cumulative \cap DOMAIN owed |->
        MulDiv(price, cumulative[i]) - owed[i]]

\* mutation: the portfolio is floored at 0
PortfolioStepFloored(value, rate, saving) ==
    IF MulDiv(value, SCALE + rate) + saving < 0 THEN 0
    ELSE MulDiv(value, SCALE + rate) + saving

\* asset_value * (1 + portfolio_return) + savings_rent_vs_buy[year]
PortfolioStep(value, rate, saving) == MulDiv(value, SCALE + rate) + saving

\* savings_rent_vs_buy[savings_rent_vs_buy > 0].index
PositiveIndex(s) == {i \in DOMAIN s : s[i] > 0}

----------------------------------------------------------------------------
(* The run of main()                                                       *)

Init ==
    /\ pc = "read_loan_inputs"
    /\ error = "none"
    /\ house_price = 0 /\ deposit_pct = 0 /\ term = 0 /\ home_loan_rate = 0
    /\ deposit_amt = 0
    /\ home_loan = NoLoan
    /\ strata_council_cost = 0 /\ home_insurance = 0 /\ transport_cost = 0
    /\ total_ownership_cost = 0
    /\ weekly_rent = 0
    /\ property_return = default_property_return
    /\ portfolio_return = default_portfolio_return
    /\ loan_payments = NoSeries /\ ownership_costs = NoSeries
    /\ rent_costs = NoSeries /\ savings_rent_vs_buy = NoSeries
    /\ cumulative_property_return = NoSeries /\ balances = NoSeries
    /\ asset_values_owning = NoSeries /\ asset_values_renting = NoSeries
    /\ asset_value = 0
    /\ year = 0
    /\ years_with_savings = {}

ReadLoanInputs ==
    /\ pc = "read_loan_inputs"
    /\ \E price \in HousePrices, pct \in DepositPcts, t \in Terms, rate \in LoanRates :
          /\ house_price' = price
          /\ deposit_pct' = pct * Pct
          /\ term' = t
          /\ home_loan_rate' = EffectiveRate(rate)
          /\ deposit_amt' = MulDiv(price, pct * Pct)
    /\ pc' = "make_loan"
    /\ UNCHANGED <<error, home_loan, strata_council_cost, home_insurance,
                   transport_cost, total_ownership_cost, weekly_rent,
                   property_return, portfolio_return, series, asset_value,
                   year, years_with_savings>>

MakeLoan ==
    /\ pc = "make_loan"
    /\ LoanValid(LoanPrincipal(house_price, deposit_amt), home_loan_rate, term)
    /\ home_loan' = Loan(LoanPrincipal(house_price, deposit_amt), home_loan_rate, term)
    /\ pc' = "read_ownership_cost_input"
    /\ UNCHANGED <<error, house_price, deposit_pct, term, home_loan_rate,
                   deposit_amt, strata_council_cost, home_insurance,
                   transport_cost, total_ownership_cost, weekly_rent,
                   property_return, portfolio_return, series, asset_value,
                   year, years_with_savings>>

MakeLoanFails ==
    /\ pc = "make_loan"
    /\ ~LoanValid(LoanPrincipal(house_price, deposit_amt), home_loan_rate, term)
    /\ error' = "InvalidParameter"
    /\ pc' = "failed"
    /\ UNCHANGED <<inputs, series, asset_value, year, years_with_savings>>

ReadOwnershipCostInput ==
    /\ pc = "read_ownership_cost_input"
    /\ \E c \in OwnershipCosts :
          /\ strata_council_cost' = c[1]
          /\ home_insurance' = c[2]
          /\ transport_cost' = c[3]
          /\ total_ownership_cost' = TotalOwnershipCost(house_price, c[1], c[2], c[3])
    /\ pc' = "read_rent_inputs"
    /\ UNCHANGED <<error, house_price, deposit_pct, term, home_loan_rate,
                   deposit_amt, home_loan, weekly_rent, property_return,
                   portfolio_return, series, asset_value, year,
                   years_with_savings>>

ReadRentInputs ==
    /\ pc = "read_rent_inputs"
    /\ \E rent \in WeeklyRents : weekly_rent' = rent
    /\ pc' = "investment_setting"
    /\ UNCHANGED <<error, house_price, deposit_pct, term, home_loan_rate,
                   deposit_amt, home_loan, strata_council_cost, home_insurance,
                   transport_cost, total_ownership_cost, property_return,
                   portfolio_return, series, asset_value, year,
                   years_with_savings>>

\* checkbox left unticked: the default market rates stay
KeepDefaultInvestment ==
    /\ pc = "investment_setting"
    /\ pc' = "loan_payments"
    /\ UNCHANGED <<error, inputs, series, asset_value, year, years_with_savings>>

ReadInvestmentInputs ==
    /\ pc = "investment_setting"
    /\ \E r \in InvestmentPcts :
          /\ property_return' = r[1] * Pct
          /\ portfolio_return' = r[2] * Pct
    /\ pc' = "loan_payments"
    /\ UNCHANGED <<error, house_price, deposit_pct, term, home_loan_rate,
                   deposit_amt, home_loan, strata_council_cost, home_insurance,
                   transport_cost, total_ownership_cost, weekly_rent, series,
                   asset_value, year, years_with_savings>>

BuildLoanPayments ==
    /\ pc = "loan_payments"
    /\ loan_payments' = LoanPaymentSeries(term, home_loan.monthly_payment, deposit_amt)
    /\ pc' = "ownership_costs"
    /\ UNCHANGED <<error, inputs, ownership_costs, rent_costs, savings_rent_vs_buy,
                   cumulative_property_return, balances, asset_values_owning,
                   asset_values_renting, asset_value, year, years_with_savings>>

BuildOwnershipCosts ==
    /\ pc = "ownership_costs"
    /\ ownership_costs' = OwnershipCostSeries(total_ownership_cost, cumulative_inflation)
    /\ pc' = "rent_costs"
    /\ UNCHANGED <<error, inputs, loan_payments, rent_costs, savings_rent_vs_buy,
                   cumulative_property_return, balances, asset_values_owning,
                   asset_values_renting, asset_value, year, years_with_savings>>

BuildRentCosts ==
    /\ pc = "rent_costs"
    /\ rent_costs' = RentCostSeries(weekly_rent, cumulative_rent_inflation)
    /\ pc' = "savings"
    /\ UNCHANGED <<error, inputs, loan_payments, ownership_costs, savings_rent_vs_buy,
                   cumulative_property_return, balances, asset_values_owning,
                   asset_values_renting, asset_value, year, years_with_savings>>

BuildSavings ==
    /\ pc = "savings"
    /\ savings_rent_vs_buy' = SavingsSeries(ownership_costs, loan_payments, rent_costs)
    /\ pc' = "property_returns"
    /\ UNCHANGED <<error, inputs, loan_payments, ownership_costs, rent_costs,
                   cumulative_property_return, balances, asset_values_owning,
                   asset_values_renting, asset_value, year, years_with_savings>>

\* also creates the zero-filled balances series the loop below fills
BuildPropertyReturns ==
    /\ pc = "property_returns"
    /\ cumulative_property_return' = CumProd(YearlyReturns(property_return))
    /\ balances' = Zeros(time_frame + 1)
    /\ year' = 0
    /\ pc' = "balances"
    /\ UNCHANGED <<error, inputs, loan_payments, ownership_costs, rent_costs,
                   savings_rent_vs_buy, asset_values_owning, asset_values_renting,
                   asset_value, years_with_savings>>

\* one pass of  for year in range(term)
BalanceLoop ==
    /\ pc = "balances"
    /\ year < term
    /\ balances' = StoreBalance(balances, year, home_loan.schedule[SchedulePeriod(year)])
    /\ year' = year + 1
    /\ UNCHANGED <<pc, error, inputs, loan_payments, ownership_costs, rent_costs,
                   savings_rent_vs_buy, cumulative_property_return,
                   asset_values_owning, asset_values_renting, asset_value,
                   years_with_savings>>

\* the loop is over; asset_values_owning and the renting loop's start
BuildAssetValuesOwning ==
    /\ pc = "balances"
    /\ year >= term
    /\ asset_values_owning' =
           AssetOwningSeries(cumulative_property_return, house_price, balances)
    /\ asset_values_renting' = Zeros(time_frame + 1)
    /\ asset_value' = 0
    /\ year' = 0
    /\ pc' = "asset_values_renting"
    /\ UNCHANGED <<error, inputs, loan_payments, ownership_costs, rent_costs,
                   savings_rent_vs_buy, cumulative_property_return, balances,
                   years_with_savings>>

\* one pass of  for year in years
PortfolioLoop ==
    /\ pc = "asset_values_renting"
    /\ year \in years
    /\ asset_value' = PortfolioStep(asset_value, portfolio_return, savings_rent_vs_buy[year])
    /\ asset_values_renting' = SetAt(asset_values_renting, year, asset_value')
    /\ year' = year + 1
    /\ UNCHANGED <<pc, error, inputs, loan_payments, ownership_costs, rent_costs,
                   savings_rent_vs_buy, cumulative_property_return, balances,
                   asset_values_owning, years_with_savings>>

PortfolioLoopEnd ==
    /\ pc = "asset_values_renting"
    /\ year \notin years
    /\ pc' = "report"
    /\ UNCHANGED <<error, inputs, series, asset_value, year, years_with_savings>>

\* years_with_savings[-1] exists
Report ==
    /\ pc = "report"
    /\ PositiveIndex(savings_rent_vs_buy) # {}
    /\ years_with_savings' = PositiveIndex(savings_rent_vs_buy)
    /\ pc' = "done"
    /\ UNCHANGED <<error, inputs, series, asset_value, year>>

\* years_with_savings is empty and indexing it raises
ReportFails ==
    /\ pc = "report"
    /\ PositiveIndex(savings_rent_vs_buy) = {}
    /\ years_with_savings' = {}
    /\ error' = "IndexError"
    /\ pc' = "failed"
    /\ UNCHANGED <<inputs, series, asset_value, year>>

Next ==
    \/ ReadLoanInputs
    \/ MakeLoan
    \/ MakeLoanFails
    \/ ReadOwnershipCostInput
    \/ ReadRentInputs
    \/ KeepDefaultInvestment
    \/ ReadInvestmentInputs
    \/ BuildLoanPayments
    \/ BuildOwnershipCosts
    \/ BuildRentCosts
    \/ BuildSavings
    \/ BuildPropertyReturns
    \/ BalanceLoop
    \/ BuildAssetValuesOwning
    \/ PortfolioLoop
    \/ PortfolioLoopEnd
    \/ Report
    \/ ReportFails

Spec == Init /\ [][Next]_vars

----------------------------------------------------------------------------
(* Properties                                                              *)

Min(a, b) == IF a <= b THEN a ELSE b

\* (1 + rate)^y for y in 0..time_frame, as element y + 1
Growth(rate) == PowSeq(SCALE + rate, time_frame)

\* C1: every rent cost is at most max_rent; rent_costs[0] = 0 and for y >= 1
\* rent_costs[y] = min(weekly_rent * 52 * (1 + rent_inflation)^y, max_rent),
\* so from the first year whose uncapped rent exceeds max_rent every later
\* year is exactly max_rent.
C1_RentCap ==
    rent_costs # NoSeries =>
        LET g == Growth(rent_inflation)
            uncapped(y) == MulDiv(weekly_rent * 52, g[y + 1])
        IN  /\ DOMAIN rent_costs = years
            /\ rent_costs[0] = 0
            /\ \A y \in years : rent_costs[y] <= max_rent
            /\ \A y \in 1..time_frame : rent_costs[y] = Min(uncapped(y), max_rent)
            /\ \A y \in 1..time_frame : uncapped(y) > max_rent =>
                   \A z \in y..time_frame : rent_costs[z] = max_rent

\* a weekly rent of 690: the cap starts to bind in year 35 and binds again
\* in every year after it
C1_Witness ==
    /\ rent_costs # NoSeries
    /\ weekly_rent = 690
    /\ rent_costs[34] > 0
    /\ rent_costs[34] < max_rent
    /\ \A y \in 35..time_frame :
          /\ MulDiv(weekly_rent * 52, Growth(rent_inflation)[y + 1]) > max_rent
          /\ rent_costs[y] = max_rent

\* C2: loan_payments[0] is the deposit (house price times deposit fraction),
\* loan_payments[y] is 12 monthly payments for 1 <= y <= term and 0 for
\* term < y <= time_frame.
C2_LoanPayments ==
    loan_payments # NoSeries =>
        /\ DOMAIN loan_payments = years
        /\ loan_payments[0] = MulDiv(house_price, deposit_pct)
        /\ \A y \in 1..time_frame :
              loan_payments[y] =
                  IF y <= term THEN home_loan.monthly_payment * 12 ELSE 0

C2_Witness ==
    /\ loan_payments # NoSeries
    /\ house_price = 800000 /\ deposit_pct = 10 * Pct /\ term = 30
    /\ loan_payments[0] = 80000
    /\ loan_payments[30] > 0
    /\ loan_payments[31] = 0

\* C5: savings_rent_vs_buy[y] = ownership_costs[y] + loan_payments[y]
\* - rent_costs[y] for every year, and year 0 is the deposit because the
\* ownership cost and the rent of year 0 are 0.
C5_ExpenseDifference ==
    savings_rent_vs_buy # NoSeries =>
        /\ DOMAIN savings_rent_vs_buy = years
        /\ \A y \in years :
              savings_rent_vs_buy[y] =
                  ownership_costs[y] + loan_payments[y] - rent_costs[y]
        /\ ownership_costs[0] = 0
        /\ rent_costs[0] = 0
        /\ savings_rent_vs_buy[0] = deposit_amt

C5_Witness ==
    /\ savings_rent_vs_buy # NoSeries
    /\ deposit_amt > 0
    /\ \E y \in 1..time_frame : savings_rent_vs_buy[y] > 0
    /\ \E y \in 1..time_frame : savings_rent_vs_buy[y] < 0

\* the renting loop has filled asset_values_renting for the years below n
RentingFilled ==
    IF pc = "asset_values_renting" THEN year
    ELSE IF asset_values_renting # NoSeries THEN time_frame + 1
    ELSE 0

\* C3: asset_values_renting[0] = savings_rent_vs_buy[0] and, for y >= 1,
\* asset_values_renting[y] = asset_values_renting[y-1] * (1 + portfolio_return)
\* + savings_rent_vs_buy[y]; nothing is floored at 0.
C3_Portfolio ==
    \A y \in 0..(RentingFilled - 1) :
        asset_values_renting[y] =
            IF y = 0 THEN savings_rent_vs_buy[0]
            ELSE MulDiv(asset_values_renting[y - 1], SCALE + portfolio_return)
                     + savings_rent_vs_buy[y]

\* a finished series in which a negative contribution has driven the
\* balance below 0 and the negative balance has been compounded
C3_Witness ==
    /\ RentingFilled = time_frame + 1
    /\ portfolio_return > 0
    /\ \E y \in 1..(time_frame - 1) :
          /\ savings_rent_vs_buy[y] < 0
          /\ asset_values_renting[y] < 0
          /\ asset_values_renting[y + 1] < asset_values_renting[y] + savings_rent_vs_buy[y + 1]

\* the balance owed in year y: the schedule's balance at period 12*y + 1
\* while y < term, 0 from year term on
Owed(y) == IF y < term THEN home_loan.schedule[12 * y + 1] ELSE 0

\* C4: asset_values_owning[y] = house_price * (1 + property_return)^y minus
\* the balance owed, which is the amortization balance at period 12*y + 1
\* for y < term and 0 for y >= term.
C4_PropertyAsset ==
    asset_values_owning # NoSeries =>
        LET g == Growth(property_return)
        IN  /\ DOMAIN asset_values_owning = years
            /\ \A y \in years :
                  asset_values_owning[y] = MulDiv(house_price, g[y + 1]) - Owed(y)

C4_Witness ==
    /\ asset_values_owning # NoSeries
    /\ property_return > 0
    /\ term < time_frame
    /\ home_loan.schedule[12 * (term - 1) + 1] > 0
    /\ home_loan.schedule[12 * (term - 1) + 1] < home_loan.schedule[12 * (term - 1)]
    /\ asset_values_owning[term - 1] < MulDiv(house_price, Growth(property_return)[term])
    /\ asset_values_owning[term] = MulDiv(house_price, Growth(property_return)[term + 1])

AllSeries ==
    {loan_payments, ownership_costs, rent_costs, savings_rent_vs_buy,
     asset_values_owning, asset_values_renting}

\* an input outside the domain of the projection
OutOfDomain ==
    \/ deposit_pct < 0 \/ deposit_pct > SCALE
    \/ time_frame <= 0
    \/ home_loan_rate < 0
    \/ house_price - deposit_amt <= 0
    \/ term <= 0

C7_SeriesLength ==
    /\ \A s \in AllSeries : s # NoSeries =>
           /\ DOMAIN s = years
           /\ Length(s) = time_frame + 1
    /\ pc \in {"report", "done"} => \A s \in AllSeries : s # NoSeries

C7_Witness ==
    /\ pc = "done"
    /\ term < time_frame
    /\ \A s \in AllSeries : DOMAIN s = 0..50

\* C8: ownership_costs[0] = 0, ownership_costs[y] = (1% of house_price
\* + strata*4 + insurance*12 + transport*52) * (1 + inflation)^y for y >= 1,
\* and with inflation > 0 the series is strictly increasing from year 1 on.
C8_OwnershipCost ==
    ownership_costs # NoSeries =>
        LET g    == Growth(inflation)
            base == house_price \div 100 + strata_council_cost * 4
                        + home_insurance * 12 + transport_cost * 52
        IN  /\ inflation > 0
            /\ ownership_costs[0] = 0
            /\ \A y \in 1..time_frame : ownership_costs[y] = MulDiv(base, g[y + 1])
            /\ \A y \in 1..(time_frame - 1) :
                  ownership_costs[y + 1] > ownership_costs[y]

C8_Witness ==
    /\ ownership_costs # NoSeries
    /\ strata_council_cost > 0 /\ home_insurance > 0 /\ transport_cost > 0
    /\ ownership_costs[1] > house_price \div 100
    /\ ownership_costs[time_frame] > 2 * ownership_costs[1]

\* the loop over range(term) has finished
BalancesDone == balances # NoSeries /\ (pc = "balances" => year >= term)

\* C9 as stated: the yearly balances start at the loan principal, never
\* increase, and are 0 from year term on.
C9_StartsAtPrincipal ==
    BalancesDone =>
        /\ balances[0] = home_loan.principal
        /\ \A y \in 0..(time_frame - 1) : balances[y + 1] <= balances[y]
        /\ \A y \in term..time_frame : balances[y] = 0

\* C9 amended: the yearly balances start at the balance after the first
\* monthly period, which is below the loan principal, never increase, and
\* are 0 from year term on.
C9_StartsAfterFirstPeriod ==
    BalancesDone =>
        /\ balances[0] = home_loan.schedule[1]
        /\ balances[0] < home_loan.principal
        /\ home_loan.schedule[0] = home_loan.principal
        /\ \A y \in 0..(time_frame - 1) : balances[y + 1] <= balances[y]
        /\ \A y \in term..time_frame : balances[y] = 0

C9_Witness ==
    /\ BalancesDone
    /\ term < time_frame
    /\ balances[0] > 0
    /\ balances[term - 1] > 0
    /\ balances[term - 1] < balances[0]
    /\ balances[term] = 0

\* C10: whatever the widgets allow, some year has a strictly positive
\* expense difference, so the last such year exists and the run ends
\* without an error.
C10_PositiveYearExists ==
    /\ savings_rent_vs_buy # NoSeries =>
           \E y \in years : savings_rent_vs_buy[y] > 0
    /\ error # "IndexError"

====
